---------------------------- MODULE Spec2Model ----------------------------
(***************************************************************************)
(* A model of server.js of tiktok-comic-app: the flat-file story store     *)
(* (GET/POST/DELETE /api/stories) and the three provider relays            *)
(* (/api/deepseek, /api/gemini-text, /api/gemini).                         *)
(*                                                                         *)
(* Request fields carry the JSON types of the data model (strings and      *)
(* lists of messages); a field may also be absent or the empty string.     *)
(* Every story handler is synchronous code (fs.readFileSync,               *)
(* fs.writeFileSync, no await), so the event loop runs it to completion:   *)
(* one action per handler.  The relay handlers are async and are split at  *)
(* their awaits.                                                           *)
(***************************************************************************)
EXTENDS Integers, Sequences, FiniteSets, TLC

VARIABLES
  file,   \* data/stories.json on disk
  resp,   \* the last response of a story endpoint
  race,   \* two clients, each with one POST /api/stories in flight
  rq,     \* the text-generation request in progress (either endpoint)
  img     \* the image-generation request in progress

vars == <<file, resp, race, rq, img>>

---------------------------------------------------------------------------
(* Bounds of the model *)

NumIds == 3          \* distinct non-empty story ids the callers use
MaxMessages == 2     \* longest message list sent to a text endpoint
TicksPerTimeout == 2 \* clock ticks that make up the 120 s timer
ExtraTicks == 1      \* ticks the clock may run past the timer's deadline

---------------------------------------------------------------------------
(* JavaScript helpers *)

\* !body.field : the field is absent (undefined) or the empty string
Falsy(body, field) == field \notin DOMAIN body \/ body[field] = ""

Truthy(body, field) == ~Falsy(body, field)

---------------------------------------------------------------------------
(* STORY STORAGE *)

StoryIds == {ToString(i) : i \in 1..NumIds}
StoryNames == {"n1", "n2"}

\* request bodies of POST /api/stories: a record, its id possibly missing or ""
StoryBodies ==
  [id : StoryIds \cup {""}, name : StoryNames] \cup [name : StoryNames]

\* outcomes of fs.writeFileSync: written; thrown before the file was opened
\* (file untouched); thrown after it was truncated (file left unparseable)
WriteOutcomes == {"ok", "EACCES", "ENOSPC"}

FileAbsent == [kind |-> "absent", stories |-> <<>>]
FileCorrupt == [kind |-> "corrupt", stories |-> <<>>]
FileJson(stories) == [kind |-> "json", stories |-> stories]

loadStoriesFromFile(f) ==
  IF f.kind = "json" THEN f.stories   \* existsSync, readFileSync, JSON.parse
  ELSE <<>>                           \* no file, or the catch: return []

\* the file after saveStoriesToFile(stories), and what it returns
saveStoriesToFile(f, stories, io) ==
  CASE io = "ok" -> [file |-> FileJson(stories), ok |-> TRUE]
    [] io = "EACCES" -> [file |-> f, ok |-> FALSE]
    [] OTHER -> [file |-> FileCorrupt, ok |-> FALSE]

\* stories.findIndex(s => s.id === id), 0-based, -1 when there is none
findIndex(stories, id) ==
  LET hits == {i \in 1..Len(stories) : stories[i].id = id}
  IN IF hits = {} THEN -1
     ELSE (CHOOSE i \in hits : \A j \in hits : i <= j) - 1

\* stories.filter(s => s.id !== id)
filterOut(stories, id) == SelectSeq(stories, LAMBDA s : s.id # id)

\* server.js 371-377: replace at existingIndex, else unshift
UpsertAlwaysUnshift(stories, storyData) == <<storyData>> \o stories
UpsertDropsRest(stories, storyData) ==
  IF findIndex(stories, storyData.id) >= 0
    THEN [stories EXCEPT ![findIndex(stories, storyData.id) + 1] = storyData]
    ELSE <<storyData>>
UpsertAppends(stories, storyData) ==
  IF findIndex(stories, storyData.id) >= 0
    THEN [stories EXCEPT ![findIndex(stories, storyData.id) + 1] = storyData]
    ELSE Append(stories, storyData)
UpsertMovesToFront(stories, storyData) ==
  <<storyData>> \o filterOut(stories, storyData.id)
Upsert(stories, storyData) ==
  IF findIndex(stories, storyData.id) >= 0
    THEN [stories EXCEPT ![findIndex(stories, storyData.id) + 1] = storyData]
    ELSE <<storyData>> \o stories

\* server.js 395: nothing was filtered out
DeleteNeverNotFound(stories, filtered) == FALSE
DeleteNotFound(stories, filtered) == Len(filtered) = Len(stories)

NoResp ==
  [route |-> "none", status |-> 0, stories |-> <<>>, wrote |-> FALSE,
   existingIndex |-> -1]

\* app.get('/api/stories')
ListAll(f) ==
  [route |-> "GET /api/stories", status |-> 200,
   stories |-> loadStoriesFromFile(f), wrote |-> FALSE, existingIndex |-> -1]

\* app.get('/api/stories/:id')
GetOne(f, id) ==
  LET stories == loadStoriesFromFile(f)
      i == findIndex(stories, id)
  IN [route |-> "GET /api/stories/:id",
      status |-> IF i < 0 THEN 404 ELSE 200,
      stories |-> IF i < 0 THEN <<>> ELSE <<stories[i + 1]>>,
      wrote |-> FALSE, existingIndex |-> i]

\* app.post('/api/stories'): the file afterwards and the response
PostResult(f, storyData, io) ==
  IF Falsy(storyData, "id")
    THEN [file |-> f,
          resp |-> [route |-> "POST /api/stories", status |-> 400,
                    stories |-> <<>>, wrote |-> FALSE, existingIndex |-> -1]]
    ELSE LET stories == loadStoriesFromFile(f)
             saved == saveStoriesToFile(f, Upsert(stories, storyData), io)
         IN [file |-> saved.file,
             resp |-> [route |-> "POST /api/stories",
                       status |-> IF saved.ok THEN 200 ELSE 500,
                       stories |-> <<>>, wrote |-> TRUE,
                       existingIndex |-> findIndex(stories, storyData.id)]]

\* app.delete('/api/stories/:id'): the file afterwards and the response
DeleteResult(f, id, io) ==
  LET stories == loadStoriesFromFile(f)
      filteredStories == filterOut(stories, id)
      saved == saveStoriesToFile(f, filteredStories, io)
  IN IF DeleteNotFound(stories, filteredStories)
       THEN [file |-> f,
             resp |-> [route |-> "DELETE /api/stories/:id", status |-> 404,
                       stories |-> <<>>, wrote |-> FALSE,
                       existingIndex |-> -1]]
       ELSE [file |-> saved.file,
             resp |-> [route |-> "DELETE /api/stories/:id",
                       status |-> IF saved.ok THEN 200 ELSE 500,
                       stories |-> <<>>, wrote |-> TRUE,
                       existingIndex |-> findIndex(stories, id)]]

GetStories ==
  /\ resp' = ListAll(file)
  /\ UNCHANGED <<file, race, rq, img>>

GetStory(id) ==
  /\ resp' = GetOne(file, id)
  /\ UNCHANGED <<file, race, rq, img>>

PostStory(storyData, io) ==
  /\ file' = PostResult(file, storyData, io).file
  /\ resp' = PostResult(file, storyData, io).resp
  /\ UNCHANGED <<race, rq, img>>

DeleteStory(id, io) ==
  /\ file' = DeleteResult(file, id, io).file
  /\ resp' = DeleteResult(file, id, io).resp
  /\ UNCHANGED <<race, rq, img>>

\* the story file is empty (an empty list, or zero bytes) or absent
EmptyFiles == {FileAbsent, FileCorrupt, FileJson(<<>>)}

\* two callers of POST /api/stories
Clients == {"c1", "c2"}

IdleRace ==
  [c \in Clients |->
     [pc |-> "idle", body |-> [name |-> "n1"], status |-> 0, overlapped |-> FALSE]]
IdleRq ==
  [pc |-> "idle", endpoint |-> "none", body |-> [apiKey |-> ""],
   timer |-> "unset", clock |-> 0, fetches |-> 0, outbound |-> <<>>,
   cancelled |-> FALSE, upstream |-> 0, upstreamBody |-> "none",
   status |-> 0]
IdleImg ==
  [pc |-> "idle", body |-> [prompt |-> ""], fetches |-> 0, parts |-> <<>>,
   upstream |-> 0, upstreamBody |-> "none", status |-> 0]

InitStore ==
  /\ file \in EmptyFiles
  /\ resp = NoResp
  /\ race = IdleRace
  /\ rq = IdleRq
  /\ img = IdleImg

NextStore ==
  \/ GetStories
  \/ \E id \in StoryIds : GetStory(id)
  \/ \E storyData \in StoryBodies, io \in WriteOutcomes : PostStory(storyData, io)
  \/ \E id \in StoryIds, io \in WriteOutcomes : DeleteStory(id, io)

SpecStore == InitStore /\ [][NextStore]_vars

---------------------------------------------------------------------------
(* Properties of the story store *)

IdsOf(stories) == {stories[i].id : i \in 1..Len(stories)}

Occurrences(stories, id) ==
  Cardinality({i \in 1..Len(stories) : stories[i].id = id})

\* C1: after any sequence of upserts and deletes from an empty or absent
\* file, no two records of the store have the same id.
C1_UniqueIds ==
  \A i, j \in 1..Len(loadStoriesFromFile(file)) :
    loadStoriesFromFile(file)[i].id = loadStoriesFromFile(file)[j].id => i = j

\* an upsert has just replaced a record of a store holding several
C1_Witness ==
  /\ resp.route = "POST /api/stories" /\ resp.status = 200
  /\ resp.existingIndex >= 0
  /\ Len(loadStoriesFromFile(file)) >= 2

\* C3: a successful upsert of a record whose non-empty id is new, followed
\* by listAll, returns that record first, its id exactly once, and then the
\* previous store contents in their previous order.
C3_NewIdListedFirst ==
  [][(resp'.route = "POST /api/stories" /\ resp'.status = 200) =>
     \A storyData \in StoryBodies :
       ( /\ Truthy(storyData, "id")
         /\ storyData.id \notin IdsOf(loadStoriesFromFile(file))
         /\ \E io \in WriteOutcomes : PostStory(storyData, io) )
       => /\ ListAll(file').status = 200
          /\ ListAll(file').stories = <<storyData>> \o loadStoriesFromFile(file)
          /\ Occurrences(ListAll(file').stories, storyData.id) = 1]_vars

\* a new id was just saved in front of records already stored
C3_Witness ==
  /\ resp.route = "POST /api/stories" /\ resp.status = 200
  /\ resp.existingIndex = -1
  /\ Len(ListAll(file).stories) >= 2

\* C4: a (successful) upsert of a record whose id is stored at position i
\* replaces it in place: same count, the new record at i, every other
\* position as before.
C4_ReplaceInPlace ==
  [][(resp'.route = "POST /api/stories" /\ resp'.status = 200) =>
     \A storyData \in StoryBodies :
       \A i \in 1..Len(loadStoriesFromFile(file)) :
         ( /\ Truthy(storyData, "id")
           /\ loadStoriesFromFile(file)[i].id = storyData.id
           /\ \E io \in WriteOutcomes : PostStory(storyData, io) )
         => /\ Len(loadStoriesFromFile(file')) = Len(loadStoriesFromFile(file))
            /\ loadStoriesFromFile(file')[i] = storyData
            /\ \A j \in 1..Len(loadStoriesFromFile(file)) :
                 j # i => loadStoriesFromFile(file')[j] = loadStoriesFromFile(file)[j]]_vars

\* a record that was not at the front was just replaced by a different one
C4_Witness ==
  /\ resp.route = "POST /api/stories" /\ resp.status = 200
  /\ resp.existingIndex >= 1
  /\ Len(loadStoriesFromFile(file)) >= 3

\* C5: deleting an id no stored record has answers 404 and leaves the store
\* unchanged, with no write to the backing file.
C5_DeleteMissing ==
  [][resp'.route = "DELETE /api/stories/:id" =>
     \A id \in StoryIds :
       ( /\ id \notin IdsOf(loadStoriesFromFile(file))
         /\ \E io \in WriteOutcomes : DeleteStory(id, io) )
       => /\ resp'.status = 404
          /\ ~resp'.wrote
          /\ file' = file]_vars

\* a delete was just answered 404 on a store that holds records
C5_Witness ==
  /\ resp.route = "DELETE /api/stories/:id" /\ resp.status = 404
  /\ Len(loadStoriesFromFile(file)) >= 1

---------------------------------------------------------------------------
(* Two POST /api/stories requests in flight at once *)

\* the stores a sequence of upserts and deletes can leave: records with
\* pairwise distinct non-empty ids, in any order
StoredRecords == [id : StoryIds, name : StoryNames]

StoreContents ==
  {s \in UNION {[1..n -> StoredRecords] : n \in 0..NumIds} :
     \A i, j \in 1..Len(s) : s[i].id = s[j].id => i = j}

StoreFiles == {FileAbsent, FileCorrupt} \cup {FileJson(s) : s \in StoreContents}

\* express.json has parsed the body; the handler is queued on the event loop
RaceReceive(c, storyData) ==
  /\ race[c].pc = "idle"
  /\ race' = [race EXCEPT ![c] = [@ EXCEPT !.pc = "pending", !.body = storyData]]
  /\ UNCHANGED <<file, resp, rq, img>>

\* the handler of app.post('/api/stories') runs, start to end
RaceHandle(c, io) ==
  /\ race[c].pc = "pending"
  /\ file' = PostResult(file, race[c].body, io).file
  /\ race' = [race EXCEPT ![c] =
                [@ EXCEPT !.pc = "done",
                          !.status = PostResult(file, race[c].body, io).resp.status,
                          !.overlapped = \E d \in Clients \ {c} : race[d].pc = "pending"]]
  /\ UNCHANGED <<resp, rq, img>>

InitRace ==
  /\ file \in StoreFiles
  /\ resp = NoResp
  /\ race = IdleRace
  /\ rq = IdleRq
  /\ img = IdleImg

NextRace ==
  \/ \E c \in Clients, storyData \in StoryBodies : RaceReceive(c, storyData)
  \/ \E c \in Clients, io \in WriteOutcomes : RaceHandle(c, io)

SpecRace == InitRace /\ [][NextRace]_vars

InStore(storyData) ==
  \E i \in 1..Len(loadStoriesFromFile(file)) : loadStoriesFromFile(file)[i] = storyData

\* C2: two POST /api/stories requests with different non-empty ids, handled
\* in any interleaving: once both have returned success the store contains
\* both records.
C2_BothUpsertsKept ==
  \A c, d \in Clients :
    ( /\ c # d
      /\ race[c].pc = "done" /\ race[c].status = 200
      /\ race[d].pc = "done" /\ race[d].status = 200
      /\ race[c].body.id # race[d].body.id )
    => InStore(race[c].body) /\ InStore(race[d].body)

\* both requests were in flight together, both returned success, ids differ
C2_Witness ==
  /\ race["c1"].pc = "done" /\ race["c1"].status = 200
  /\ race["c2"].pc = "done" /\ race["c2"].status = 200
  /\ race["c1"].overlapped
  /\ race["c1"].body.id # race["c2"].body.id
  /\ InStore(race["c1"].body) /\ InStore(race["c2"].body)

---------------------------------------------------------------------------
(* TEXT GENERATION: /api/deepseek and /api/gemini-text *)

Roles == {"system", "user", "assistant"}

\* one message per role; the text tells the roles apart
ContentOf(role) ==
  CASE role = "system" -> "S" [] role = "user" -> "U" [] OTHER -> "A"

Messages == {[role |-> r, content |-> ContentOf(r)] : r \in Roles}

MessageLists == UNION {[1..n -> Messages] : n \in 0..MaxMessages}

ApiKeys == {"", "sk-key"}

\* request bodies {apiKey?, messages?}
TextBodies ==
  [apiKey : ApiKeys, messages : MessageLists] \cup [messages : MessageLists]
    \cup [apiKey : ApiKeys]

\* what the provider answers: a status line, then a body that is a JSON
\* object with the expected content (choices, candidates, error.message), a
\* JSON object without it, or not JSON at all (or a stream that breaks)
ProviderStatuses == {200, 401, 503}
BodyKinds == {"object", "empty", "unparseable"}

\* response.ok
Ok(st) == 200 <= st /\ st <= 299

\* setTimeout(..., 120000)
DeepseekTimeoutMs == 120000

\* the time since the fetch was issued, the clock counting equal ticks
ElapsedMs(clock) == clock * (DeepseekTimeoutMs \div TicksPerTimeout)

\* if (!apiKey) return res.status(400)
MissingCredentialOnlyAbsent(body) == "apiKey" \notin DOMAIN body
MissingCredential(body) == Falsy(body, "apiKey")

\* the catch of /api/deepseek: the status per error
DeepseekCatchNoAbortBranch(error) ==
  IF error = "ECONNRESET" THEN 503 ELSE 500
DeepseekCatchStatus(error) ==
  CASE error = "AbortError" -> 504
    [] error = "ECONNRESET" -> 503
    [] OTHER -> 500

\* /api/deepseek once the body has been read: the caller's status
DeepseekResponseStatus(st, kind) ==
  IF ~Ok(st)
    THEN CASE kind = "unparseable" -> st   \* inner catch: response.statusText
           [] OTHER -> st                  \* errorData.error?.message
    ELSE CASE kind = "unparseable" -> DeepseekCatchStatus("Error") \* throw
           [] OTHER -> 200                 \* res.json(data)

\* /api/gemini-text once the body has been read: the caller's status
GeminiTextResponseStatus(st, kind) ==
  CASE kind = "unparseable" -> 500       \* response.json() throws: catch
    [] ~Ok(st) -> st
    [] kind = "object" -> 200
    [] OTHER -> 400                      \* No text generated

\* messages.map(...) and the merge of a leading system message
GeminiContents(messages) ==
  LET mapped ==
        [i \in 1..Len(messages) |->
           [role |-> IF messages[i].role = "system" THEN "user"
                     ELSE messages[i].role,
            text |-> <<messages[i].content>>]]
  IN IF /\ Len(messages) >= 2
        /\ messages[1].role = "system"
        /\ messages[2].role = "user"
       THEN <<[role |-> "user",
               text |-> <<messages[1].content, "\n\n", messages[2].content>>]>>
              \o SubSeq(mapped, 3, Len(mapped))
       ELSE mapped

\* the messages /api/deepseek forwards as they are (undefined is left out)
DeepseekMessages(body) ==
  IF "messages" \in DOMAIN body
    THEN [i \in 1..Len(body.messages) |->
            [role |-> body.messages[i].role,
             text |-> <<body.messages[i].content>>]]
    ELSE <<>>

NewRq(endpoint, body) == [IdleRq EXCEPT !.endpoint = endpoint, !.body = body]

DeepseekRequest(body) ==
  /\ rq.pc \in {"idle", "done"}
  /\ rq' = IF MissingCredential(body)
             THEN [NewRq("deepseek", body) EXCEPT !.pc = "done", !.status = 400]
             ELSE [NewRq("deepseek", body) EXCEPT
                     !.pc = "fetch", !.timer = "armed", !.fetches = 1,
                     !.outbound = DeepseekMessages(body)]
  /\ UNCHANGED <<file, resp, race, img>>

\* time passes; the timer's callback runs when its 120 s are over
DeepseekTick ==
  /\ rq.endpoint = "deepseek"
  /\ rq.pc \in {"fetch", "body"} \/ rq.timer = "armed"
  /\ rq.clock < TicksPerTimeout + ExtraTicks
  /\ rq.timer = "armed" => ElapsedMs(rq.clock) < DeepseekTimeoutMs
  /\ rq' = [rq EXCEPT !.clock = @ + 1]
  /\ UNCHANGED <<file, resp, race, img>>

\* setTimeout(() => controller.abort(), 120000): a pending fetch rejects
\* with AbortError and the catch answers
DeepseekTimerFires ==
  /\ rq.endpoint = "deepseek"
  /\ rq.timer = "armed"
  /\ ElapsedMs(rq.clock) >= DeepseekTimeoutMs
  /\ rq' = IF rq.pc = "fetch"
             THEN [rq EXCEPT !.timer = "fired", !.cancelled = TRUE,
                             !.pc = "done",
                             !.status = DeepseekCatchStatus("AbortError")]
             ELSE [rq EXCEPT !.timer = "fired"]
  /\ UNCHANGED <<file, resp, race, img>>

\* await fetch(...) resolves; clearTimeout(timeout)
DeepseekHeaders(st) ==
  /\ rq.endpoint = "deepseek"
  /\ rq.pc = "fetch"
  /\ rq' = [rq EXCEPT !.pc = "body", !.upstream = st, !.timer = "cleared"]
  /\ UNCHANGED <<file, resp, race, img>>

\* await fetch(...) rejects; the timer is left running
DeepseekFetchError(error) ==
  /\ rq.endpoint = "deepseek"
  /\ rq.pc = "fetch"
  /\ rq' = [rq EXCEPT !.pc = "done", !.status = DeepseekCatchStatus(error)]
  /\ UNCHANGED <<file, resp, race, img>>

\* await response.json() settles
DeepseekBody(kind) ==
  /\ rq.endpoint = "deepseek"
  /\ rq.pc = "body"
  /\ rq' = [rq EXCEPT !.pc = "done", !.upstreamBody = kind,
                      !.status = DeepseekResponseStatus(rq.upstream, kind)]
  /\ UNCHANGED <<file, resp, race, img>>

GeminiTextRequest(body) ==
  /\ rq.pc \in {"idle", "done"}
  /\ rq' = CASE MissingCredential(body) ->
                  [NewRq("gemini-text", body) EXCEPT !.pc = "done", !.status = 400]
             [] ~MissingCredential(body) /\ "messages" \notin DOMAIN body ->
                  \* undefined.map: TypeError, caught
                  [NewRq("gemini-text", body) EXCEPT !.pc = "done", !.status = 500]
             [] OTHER ->
                  [NewRq("gemini-text", body) EXCEPT
                     !.pc = "fetch", !.fetches = 1,
                     !.outbound = GeminiContents(body.messages)]
  /\ UNCHANGED <<file, resp, race, img>>

GeminiTextHeaders(st) ==
  /\ rq.endpoint = "gemini-text"
  /\ rq.pc = "fetch"
  /\ rq' = [rq EXCEPT !.pc = "body", !.upstream = st]
  /\ UNCHANGED <<file, resp, race, img>>

GeminiTextFetchError ==
  /\ rq.endpoint = "gemini-text"
  /\ rq.pc = "fetch"
  /\ rq' = [rq EXCEPT !.pc = "done", !.status = 500]
  /\ UNCHANGED <<file, resp, race, img>>

GeminiTextBody(kind) ==
  /\ rq.endpoint = "gemini-text"
  /\ rq.pc = "body"
  /\ rq' = [rq EXCEPT !.pc = "done", !.upstreamBody = kind,
                      !.status = GeminiTextResponseStatus(rq.upstream, kind)]
  /\ UNCHANGED <<file, resp, race, img>>

InitText ==
  /\ file = FileAbsent
  /\ resp = NoResp
  /\ race = IdleRace
  /\ rq = IdleRq
  /\ img = IdleImg

NextText ==
  \/ \E body \in TextBodies : DeepseekRequest(body)
  \/ DeepseekTick
  \/ DeepseekTimerFires
  \/ \E st \in ProviderStatuses : DeepseekHeaders(st)
  \/ \E error \in {"ECONNRESET", "ENOTFOUND"} : DeepseekFetchError(error)
  \/ \E kind \in BodyKinds : DeepseekBody(kind)
  \/ \E body \in TextBodies : GeminiTextRequest(body)
  \/ \E st \in ProviderStatuses : GeminiTextHeaders(st)
  \/ GeminiTextFetchError
  \/ \E kind \in BodyKinds : GeminiTextBody(kind)

SpecText == InitText /\ [][NextText]_vars

\* the clock advances and due timers run
FairSpecText ==
  SpecText /\ WF_vars(DeepseekTick) /\ WF_vars(DeepseekTimerFires)

---------------------------------------------------------------------------
(* Properties of the text-generation relays *)

C6_Bounded ==
  rq.endpoint = "deepseek" =>
    \* the outbound call is never still awaited past the timer's deadline
    /\ rq.pc = "fetch" =>
         rq.timer = "armed" /\ ElapsedMs(rq.clock) <= DeepseekTimeoutMs
    \* a cancelled call is answered 504, and the provider had not responded
    /\ rq.cancelled => rq.pc = "done" /\ rq.status = 504 /\ rq.upstream = 0
    \* 504 is sent only for a call cancelled at the deadline
    /\ rq.status = 504 =>
         rq.cancelled /\ ElapsedMs(rq.clock) >= DeepseekTimeoutMs
    \* no 504 once the provider has responded
    /\ rq.upstream # 0 => rq.status # 504

C7_UpstreamStatusPassedOn ==
  (rq.pc = "done" /\ rq.upstream # 0 /\ ~Ok(rq.upstream))
    => rq.status = rq.upstream

\* C8: every entry of the contents /api/gemini-text sends has a role in
\* {user, model}.
C8_GeminiRoles ==
  (rq.endpoint = "gemini-text" /\ rq.fetches > 0)
    => \A i \in 1..Len(rq.outbound) : rq.outbound[i].role \in {"user", "model"}

\* C10: on both text endpoints a request with no apiKey is answered 400 and
\* no outbound request is ever issued for it: no timer, no fetch.
C10_NoKeyNoFetch ==
  (rq.pc # "idle" /\ Falsy(rq.body, "apiKey"))
    => /\ rq.pc = "done" /\ rq.status = 400
       /\ rq.fetches = 0 /\ rq.timer = "unset" /\ rq.outbound = <<>>

\* a request without a usable key has been answered
C10_Witness ==
  /\ rq.endpoint \in {"deepseek", "gemini-text"}
  /\ rq.pc = "done" /\ rq.status = 400
  /\ Falsy(rq.body, "apiKey")
  /\ "messages" \in DOMAIN rq.body /\ Len(rq.body.messages) > 0

---------------------------------------------------------------------------
(* IMAGE GENERATION: /api/gemini *)

\* a referenceImage is a string, modelled as the sequence of its characters
DataColon == <<"d", "a", "t", "a", ":">>
Base64Comma == <<";", "b", "a", "s", "e", "6", "4", ",">>

\* data:i/p;base64,QU   and   data:x;base64,;,
WellFormedReferenceImages ==
  { DataColon \o <<"i", "/", "p">> \o Base64Comma \o <<"Q", "U">>,
    DataColon \o <<"x">> \o Base64Comma \o <<";", ",">> }

MalformedReferenceImages ==
  { <<"h", "t", "t", "p">>,                                 \* http
    DataColon \o Base64Comma \o <<"Q">>,                    \* data:;base64,Q
    DataColon \o <<"x">> \o Base64Comma,                    \* data:x;base64,
    DataColon \o <<"x", ";", "Q">>,                         \* data:x;Q
    DataColon \o <<"x", ";", "c">> \o Base64Comma \o <<"Q">>, \* data:x;c;base64,Q
    <<" ">> \o DataColon \o <<"x">> \o Base64Comma \o <<"Q">>, \* leading blank
    DataColon \o <<"x">> \o Base64Comma \o <<"Q", "\n">>,   \* trailing newline
    DataColon \o <<"x">> \o Base64Comma \o <<"Q", "\n", "U">> }

\* the empty string is a referenceImage too: it is falsy
ReferenceImages ==
  WellFormedReferenceImages \cup MalformedReferenceImages \cup {<<>>}

ImagePrompt == "a cat"

\* request bodies {apiKey?, prompt, referenceImage?}
ImageBodies ==
  [apiKey : ApiKeys, prompt : {ImagePrompt}, referenceImage : ReferenceImages]
    \cup [apiKey : ApiKeys, prompt : {ImagePrompt}]
    \cup [prompt : {ImagePrompt}, referenceImage : ReferenceImages]
    \cup [prompt : {ImagePrompt}]

StartsWith(str, prefix) ==
  Len(str) >= Len(prefix) /\ SubSeq(str, 1, Len(prefix)) = prefix

\* characters "." does not match
LineTerminators == {"\n", "\r"}

NoMatch == [matched |-> FALSE, mimeType |-> <<>>, data |-> <<>>]

\* referenceImage.match(/^data:([^;]+);base64,(.+)$/): [^;]+ runs to the
\* first ";", which must open ";base64,"; (.+)$ is the rest, not empty and
\* with no line terminator
DataUrlMatch(str) ==
  IF ~StartsWith(str, DataColon) THEN NoMatch
  ELSE
    LET rest == SubSeq(str, Len(DataColon) + 1, Len(str))
        semis == {i \in 1..Len(rest) : rest[i] = ";"}
    IN IF semis = {} THEN NoMatch
       ELSE
         LET k == CHOOSE i \in semis : \A j \in semis : i <= j
             mime == SubSeq(rest, 1, k - 1)
             tail == SubSeq(rest, k, Len(rest))
             data == SubSeq(tail, Len(Base64Comma) + 1, Len(tail))
         IN IF /\ mime # <<>>
               /\ StartsWith(tail, Base64Comma)
               /\ data # <<>>
               /\ \A i \in 1..Len(data) : data[i] \notin LineTerminators
              THEN [matched |-> TRUE, mimeType |-> mime, data |-> data]
              ELSE NoMatch

\* server.js 265-279: the part pushed for the reference image, if any
ReferencePartsUnguarded(body) ==
  IF "referenceImage" \notin DOMAIN body \/ body.referenceImage = <<>>
    THEN <<>>
    ELSE <<[inlineData |->
              [mimeType |-> DataUrlMatch(body.referenceImage).mimeType,
               data |-> DataUrlMatch(body.referenceImage).data]]>>
ReferenceParts(body) ==
  IF "referenceImage" \notin DOMAIN body \/ body.referenceImage = <<>>
    THEN <<>>
    ELSE IF DataUrlMatch(body.referenceImage).matched
           THEN <<[inlineData |->
                     [mimeType |-> DataUrlMatch(body.referenceImage).mimeType,
                      data |-> DataUrlMatch(body.referenceImage).data]]>>
           ELSE <<>>

\* const parts = [{ text: prompt }]; parts.push(...)
ImageParts(body) == <<[text |-> body.prompt]>> \o ReferenceParts(body)

\* /api/gemini once the body has been read: the caller's status
GeminiImageResponseStatus(st, kind) ==
  CASE kind = "unparseable" -> 500       \* response.json() throws: catch
    [] ~Ok(st) -> st
    [] kind = "object" -> 200            \* a part with an image/ MIME type
    [] OTHER -> 400                      \* No image generated

GeminiImageRequest(body) ==
  /\ img.pc \in {"idle", "done"}
  /\ img' = IF MissingCredential(body)
              THEN [IdleImg EXCEPT !.pc = "done", !.body = body, !.status = 400]
              ELSE [IdleImg EXCEPT !.pc = "fetch", !.body = body, !.fetches = 1,
                                   !.parts = ImageParts(body)]
  /\ UNCHANGED <<file, resp, race, rq>>

GeminiImageHeaders(st) ==
  /\ img.pc = "fetch"
  /\ img' = [img EXCEPT !.pc = "body", !.upstream = st]
  /\ UNCHANGED <<file, resp, race, rq>>

GeminiImageFetchError ==
  /\ img.pc = "fetch"
  /\ img' = [img EXCEPT !.pc = "done", !.status = 500]
  /\ UNCHANGED <<file, resp, race, rq>>

GeminiImageBody(kind) ==
  /\ img.pc = "body"
  /\ img' = [img EXCEPT !.pc = "done", !.upstreamBody = kind,
                        !.status = GeminiImageResponseStatus(img.upstream, kind)]
  /\ UNCHANGED <<file, resp, race, rq>>

InitImage ==
  /\ file = FileAbsent
  /\ resp = NoResp
  /\ race = IdleRace
  /\ rq = IdleRq
  /\ img = IdleImg

NextImage ==
  \/ \E body \in ImageBodies : GeminiImageRequest(body)
  \/ \E st \in ProviderStatuses : GeminiImageHeaders(st)
  \/ GeminiImageFetchError
  \/ \E kind \in BodyKinds : GeminiImageBody(kind)

SpecImage == InitImage /\ [][NextImage]_vars

DataUrlAttached ==
  ( /\ img.pc # "idle"
    /\ Truthy(img.body, "apiKey")
    /\ "referenceImage" \in DOMAIN img.body
    /\ img.body.referenceImage \in WellFormedReferenceImages )
  => Len(img.parts) = 2

=============================================================================
